---------------------------- MODULE Spec2Model ----------------------------
(***************************************************************************)
(* Locale resolution and switching of the Next.js boilerplate:             *)
(*   src/i18n/routing.ts                       the locale registry (and    *)
(*                                             the Home page)              *)
(*   src/features/language-switcher/...tsx     the language switcher       *)
(*                                                                         *)
(* Strings are sequences of one-character strings, so that building the    *)
(* cookie string (a template literal) and the browser's parsing of it are  *)
(* two different computations.                                             *)
(***************************************************************************)
EXTENDS Integers, Sequences, FiniteSets, TLC

VARIABLES
    jar,            \* the browser's cookie store: a set of cookie records
    now,            \* the clock, in seconds
    ticks,          \* how many times the clock has advanced
    pc,             \* statements of handleLanguageChange already executed by the call in flight (0 = none in flight)
    callArg,        \* the argument of the handleLanguageChange call in flight, <<>> when none
    done,           \* the effects the current or last call on this page has had, in order
    reloadPending,  \* location.reload() was called and the new page is not there yet
    page,           \* the page on screen: what its render pass read and the locale of each render context
    lastSwitch      \* <<L, t>>: the last call's argument and time, <<>> once the stored value was changed from outside or its year is over

vars == <<jar, now, ticks, pc, callArg, done, reloadPending, page, lastSwitch>>

---------------------------------------------------------------------------
(* Bounds of the model *)

MaxTicks == 3

---------------------------------------------------------------------------
(* Strings *)

None == <<>>
Some(v) == <<v>>

Upper == <<"A","B","C","D","E","F","G","H","I","J","K","L","M","N","O","P","Q","R","S","T","U","V","W","X","Y","Z">>
Lower == <<"a","b","c","d","e","f","g","h","i","j","k","l","m","n","o","p","q","r","s","t","u","v","w","x","y","z">>
Digits == <<"0","1","2","3","4","5","6","7","8","9">>

Range(s) == {s[i] : i \in DOMAIN s}

\* the first index of character c in s, 0 when there is none
IndexOf(s, c) ==
    IF c \in Range(s)
    THEN CHOOSE i \in 1..Len(s) : s[i] = c /\ \A j \in 1..(i - 1) : s[j] # c
    ELSE 0

LowerChar(c) ==
    IF c \in Range(Upper) THEN Lower[IndexOf(Upper, c)] ELSE c

ToLower(s) == [i \in 1..Len(s) |-> LowerChar(s[i])]

IsSpace(c) == c = " " \/ c = "\t"

RECURSIVE TrimLeft(_)
TrimLeft(s) ==
    IF s # <<>> /\ IsSpace(Head(s)) THEN TrimLeft(Tail(s)) ELSE s

RECURSIVE TrimRight(_)
TrimRight(s) ==
    IF s # <<>> /\ IsSpace(s[Len(s)]) THEN TrimRight(SubSeq(s, 1, Len(s) - 1)) ELSE s

Trim(s) == TrimRight(TrimLeft(s))

RECURSIVE ParseDigits(_)
ParseDigits(s) ==
    IF s = <<>> THEN 0
    ELSE ParseDigits(SubSeq(s, 1, Len(s) - 1)) * 10 + (IndexOf(Digits, s[Len(s)]) - 1)

---------------------------------------------------------------------------
(* src/i18n/routing.ts: the registry *)

\* the registry with "zh" left out
locales_WithoutZh == << <<"e","n">>, <<"e","s">>, <<"i","d">> >>

locales == << <<"e","n">>, <<"z","h">>, <<"e","s">>, <<"i","d">> >>

\* a default that is not one of the locales
defaultLocale_Unlisted == <<"e","n","-","U","S">>

defaultLocale == <<"e","n">>


---------------------------------------------------------------------------
(* src/features/language-switcher/language-switcher.tsx, line 15: the      *)
(* cookie string and what assigning it to document.cookie does             *)

\* "NEXT_LOCALE"
CookieName == <<"N","E","X","T","_","L","O","C","A","L","E">>

\* the max-age the cookie string asks for, in seconds
OneYear == 31536000

\* the value written with quotes around it
CookieString_Quoted(language) ==
    <<"N","E","X","T","_","L","O","C","A","L","E","=","'">> \o language
    \o <<"'",";"," ","p","a","t","h","=","/",";"," ","m","a","x","-","a","g","e","=","3","1","5","3","6","0","0","0",";"," ","S","a","m","e","S","i","t","e","=","L","a","x">>

\* the cookie scoped to one page instead of the site
CookieString_PagePath(language) ==
    <<"N","E","X","T","_","L","O","C","A","L","E","=">> \o language
    \o <<";"," ","p","a","t","h","=","/","s","e","t","t","i","n","g","s",";"," ","m","a","x","-","a","g","e","=","3","1","5","3","6","0","0","0",";"," ","S","a","m","e","S","i","t","e","=","L","a","x">>

\* a max-age with a digit too many
CookieString_TenYears(language) ==
    <<"N","E","X","T","_","L","O","C","A","L","E","=">> \o language
    \o <<";"," ","p","a","t","h","=","/",";"," ","m","a","x","-","a","g","e","=","3","1","5","3","6","0","0","0","0",";"," ","S","a","m","e","S","i","t","e","=","L","a","x">>

\* a max-age with a digit missing
CookieString_ShortAge(language) ==
    <<"N","E","X","T","_","L","O","C","A","L","E","=">> \o language
    \o <<";"," ","p","a","t","h","=","/",";"," ","m","a","x","-","a","g","e","=","3","1","5","3","6","0","0",";"," ","S","a","m","e","S","i","t","e","=","L","a","x">>

\* choosing the default locale deletes the cookie instead of storing it
CookieString_DefaultClears(language) ==
    IF language = defaultLocale
    THEN <<"N","E","X","T","_","L","O","C","A","L","E","=",";"," ","p","a","t","h","=","/",";"," ","m","a","x","-","a","g","e","=","0",";"," ","S","a","m","e","S","i","t","e","=","L","a","x">>
    ELSE <<"N","E","X","T","_","L","O","C","A","L","E","=">> \o language
         \o <<";"," ","p","a","t","h","=","/",";"," ","m","a","x","-","a","g","e","=","3","1","5","3","6","0","0","0",";"," ","S","a","m","e","S","i","t","e","=","L","a","x">>

\* `NEXT_LOCALE=${language}; path=/; max-age=31536000; SameSite=Lax`
CookieString(language) ==
    <<"N","E","X","T","_","L","O","C","A","L","E","=">> \o language
    \o <<";"," ","p","a","t","h","=","/",";"," ","m","a","x","-","a","g","e","=","3","1","5","3","6","0","0","0",";"," ","S","a","m","e","S","i","t","e","=","L","a","x">>

\* the path of the document that runs the script: the Home page
DocumentPath == <<"/">>

\* the attributes of a cookie whose string names none
NoAttributes == [path |-> DocumentPath, maxAge |-> None, sameSite |-> "Default"]

IsDigit(c) == c \in Range(Digits)

\* one cookie-av of a cookie string: the attribute's name, lower-cased, and its value
ApplyAttribute(acc, aname, aval) ==
    IF aname = <<"m","a","x","-","a","g","e">>
    THEN IF aval = <<>> \/ ~(IsDigit(aval[1]) \/ aval[1] = "-")
            \/ (\E i \in 2..Len(aval) : ~IsDigit(aval[i]))
         THEN acc
         ELSE [acc EXCEPT !.maxAge =
                  Some(IF aval[1] = "-" THEN 0 - ParseDigits(Tail(aval)) ELSE ParseDigits(aval))]
    ELSE IF aname = <<"p","a","t","h">>
    THEN [acc EXCEPT !.path = IF aval = <<>> \/ aval[1] # "/" THEN DocumentPath ELSE aval]
    ELSE IF aname = <<"s","a","m","e","s","i","t","e">>
    THEN [acc EXCEPT !.sameSite =
             IF ToLower(aval) = <<"l","a","x">> THEN "Lax"
             ELSE IF ToLower(aval) = <<"s","t","r","i","c","t">> THEN "Strict"
             ELSE IF ToLower(aval) = <<"n","o","n","e">> THEN "None"
             ELSE "Default"]
    ELSE acc

\* the attributes of a cookie string, from the part that starts at its first ";"
RECURSIVE ParseAttributes(_, _)
ParseAttributes(unparsed, acc) ==
    IF unparsed = <<>> THEN acc
    ELSE LET rest == Tail(unparsed)
             semi == IndexOf(rest, ";")
             av   == IF semi = 0 THEN rest ELSE SubSeq(rest, 1, semi - 1)
             more == IF semi = 0 THEN <<>> ELSE SubSeq(rest, semi, Len(rest))
             eq   == IndexOf(av, "=")
             aname == ToLower(Trim(IF eq = 0 THEN av ELSE SubSeq(av, 1, eq - 1)))
             aval  == Trim(IF eq = 0 THEN <<>> ELSE SubSeq(av, eq + 1, Len(av)))
         IN  ParseAttributes(more, ApplyAttribute(acc, aname, aval))

\* a cookie string parsed: None when it has no name=value pair
ParseCookie(str) ==
    LET semi == IndexOf(str, ";")
        pair == IF semi = 0 THEN str ELSE SubSeq(str, 1, semi - 1)
        unparsed == IF semi = 0 THEN <<>> ELSE SubSeq(str, semi, Len(str))
        eq == IndexOf(pair, "=")
    IN  IF eq = 0 THEN None
        ELSE Some([name  |-> Trim(SubSeq(pair, 1, eq - 1)),
                   value |-> Trim(SubSeq(pair, eq + 1, Len(pair))),
                   attrs |-> ParseAttributes(unparsed, NoAttributes)])

\* the cookies of a store that have not expired at time t
Live(store, t) == {c \in store : ~c.persistent \/ c.expiry > t}

\* document.cookie = str at time t: the cookie replaces the one of the same
\* name and path; a max-age of 0 or less makes it expire at once
SetCookie(store, str, t) ==
    LET parsed == ParseCookie(str)
    IN  IF parsed = None THEN store
        ELSE LET p == parsed[1]
                 c == [name       |-> p.name,
                       value      |-> p.value,
                       path       |-> p.attrs.path,
                       persistent |-> p.attrs.maxAge # None,
                       expiry     |-> IF p.attrs.maxAge = None THEN 0
                                      ELSE IF p.attrs.maxAge[1] <= 0 THEN 0
                                      ELSE t + p.attrs.maxAge[1],
                       sameSite   |-> p.attrs.sameSite]
             IN  Live({o \in store : ~(o.name = c.name /\ o.path = c.path)} \cup {c}, t)

---------------------------------------------------------------------------
(* The persistence adapter's read and the resolver *)

\* whether a request for requestPath carries a cookie of path cookiePath
PathMatches(requestPath, cookiePath) ==
    \/ requestPath = cookiePath
    \/ /\ Len(cookiePath) < Len(requestPath)
       /\ SubSeq(requestPath, 1, Len(cookiePath)) = cookiePath
       /\ (cookiePath[Len(cookiePath)] = "/" \/ requestPath[Len(cookiePath) + 1] = "/")

\* the cookies a request for the Home page carries at time t
CookieHeader(store, t) == {c \in Live(store, t) : PathMatches(DocumentPath, c.path)}

\* the shape of a locale code: letters, digits and hyphens, starting with a letter
IsLocaleCode(v) ==
    /\ v # <<>>
    /\ LowerChar(v[1]) \in Range(Lower)
    /\ \A i \in 1..Len(v) : LowerChar(v[i]) \in Range(Lower) \/ IsDigit(v[i]) \/ v[i] = "-"

\* read(): the stored preference, None when absent, expired or malformed
read(store, t) ==
    LET sent == {c \in CookieHeader(store, t) : c.name = CookieName}
    IN  IF sent = {} THEN None
        ELSE LET c == CHOOSE x \in sent : \A y \in sent : Len(y.path) <= Len(x.path)
             IN  IF IsLocaleCode(c.value) THEN Some(c.value) ELSE None

\* resolve(storedPreference): the active locale of a render pass
resolve(storedPreference) ==
    IF storedPreference # None /\ storedPreference[1] \in Range(locales)
    THEN storedPreference[1]
    ELSE defaultLocale


---------------------------------------------------------------------------
(* The page: Home and the LanguageSwitcher it holds *)

\* a hard-coded button beside those of the registry
Buttons_ExtraChoice(locale) ==
    [i \in 1..Len(locales) + 1 |->
        LET l == IF i <= Len(locales) THEN locales[i] ELSE <<"f","r">>
        IN  [key     |-> l,
             onClick |-> l,
             variant |-> IF locale = l THEN "default" ELSE "outline"]]

\* LanguageSwitcher's buttons: one per routing.locales entry, in order
Buttons(locale) ==
    [i \in 1..Len(locales) |->
        [key     |-> locales[i],
         onClick |-> locales[i],
         variant |-> IF locale = locales[i] THEN "default" ELSE "outline"]]

\* what LanguageSwitcher renders for the locale useLocale() gives it
LanguageSwitcher(locale) == [buttons |-> Buttons(locale), current |-> locale]

\* one render pass of the Home page at time t: the request's locale goes to
\* Home (getTranslations) and to LanguageSwitcher (useLocale)
Render(store, t) ==
    LET stored == read(store, t)
        locale == resolve(stored)
    IN  [stored |-> stored, home |-> locale, switcher |-> LanguageSwitcher(locale)]

\* the reload asked for before the cookie is written
handleLanguageChange_ReloadFirst == <<"location.reload", "document.cookie">>

\* the statements of handleLanguageChange, in order
handleLanguageChange == <<"document.cookie", "location.reload">>

\* a second click while a reload is pending does not write
Statement_SkipWhilePending(stmt, lang) ==
    IF stmt = "document.cookie"
    THEN /\ jar' = IF reloadPending THEN jar ELSE SetCookie(jar, CookieString(lang), now)
         /\ done' = Append(IF pc = 0 THEN <<>> ELSE done, "write")
         /\ UNCHANGED reloadPending
    ELSE /\ reloadPending' = TRUE
         /\ done' = Append(IF pc = 0 THEN <<>> ELSE done, "reload")
         /\ UNCHANGED jar

\* one statement of handleLanguageChange(lang) and the effect it is logged as
Statement(stmt, lang) ==
    IF stmt = "document.cookie"
    THEN /\ jar' = SetCookie(jar, CookieString(lang), now)
         /\ done' = Append(IF pc = 0 THEN <<>> ELSE done, "write")
         /\ UNCHANGED reloadPending
    ELSE /\ reloadPending' = TRUE
         /\ done' = Append(IF pc = 0 THEN <<>> ELSE done, "reload")
         /\ UNCHANGED jar

\* the position after the statement at position n + 1
After(n) == IF n + 1 = Len(handleLanguageChange) THEN 0 ELSE n + 1

---------------------------------------------------------------------------
(* What the visitor and the browser do from outside the page's script *)

\* the values a cookie string written from outside may carry: unsupported,
\* malformed, empty, supported
OutsideValues == {<<"f","r">>, <<"E","N">>, <<"x","!">>, <<>>, <<"z","h">>}

\* the max-age such a string may carry
OutsideAges == {<<"0">>, <<"1">>, <<"3","1","5","3","6","0","0","0">>}

\* `NEXT_LOCALE=${value}; path=/; max-age=${age}`
OutsideString(value, age) ==
    <<"N","E","X","T","_","L","O","C","A","L","E","=">> \o value \o <<";"," ","p","a","t","h","=","/",";"," ","m","a","x","-","a","g","e","=">> \o age

\* the steps the clock may advance by
Steps == {1, OneYear - 1}

---------------------------------------------------------------------------
(* The state machine *)

Init ==
    /\ jar = {}
    /\ now = 0
    /\ ticks = 0
    /\ pc = 0
    /\ callArg = None
    /\ done = <<>>
    /\ reloadPending = FALSE
    /\ page = Render({}, 0)
    /\ lastSwitch = None

\* the visitor clicks button i: handleLanguageChange(language) starts and runs its first statement
Click(i) ==
    /\ pc = 0
    /\ i \in DOMAIN page.switcher.buttons
    /\ LET lang == page.switcher.buttons[i].onClick
       IN  /\ Statement(handleLanguageChange[1], lang)
           /\ callArg' = IF After(0) = 0 THEN None ELSE Some(lang)
           /\ lastSwitch' = <<lang, now>>
    /\ pc' = After(0)
    /\ UNCHANGED <<now, ticks, page>>

\* the call in flight runs its next statement
Continue ==
    /\ pc > 0
    /\ Statement(handleLanguageChange[pc + 1], callArg[1])
    /\ pc' = After(pc)
    /\ callArg' = IF After(pc) = 0 THEN None ELSE callArg
    /\ UNCHANGED <<now, ticks, page, lastSwitch>>

\* the reload that location.reload() asked for arrives: the page is rendered anew
ReloadComplete ==
    /\ pc = 0
    /\ reloadPending
    /\ page' = Render(jar, now)
    /\ reloadPending' = FALSE
    /\ done' = <<>>
    /\ UNCHANGED <<jar, now, ticks, pc, callArg, lastSwitch>>

\* the visitor requests the page again (a navigation, F5)
Request ==
    /\ pc = 0
    /\ ~reloadPending
    /\ page' = Render(jar, now)
    /\ done' = <<>>
    /\ UNCHANGED <<jar, now, ticks, pc, callArg, reloadPending, lastSwitch>>

\* time passes between two tasks of the page; an expired cookie stays in the
\* store, unread, until the next write evicts it
Tick(d) ==
    /\ pc = 0
    /\ ticks < MaxTicks
    /\ now' = now + d
    /\ ticks' = ticks + 1
    /\ lastSwitch' = IF lastSwitch # None /\ now' >= lastSwitch[2] + OneYear THEN None ELSE lastSwitch
    /\ UNCHANGED <<jar, pc, callArg, done, reloadPending, page>>

\* the stored cookie is written from outside the switcher (another script, the developer tools)
ExternalWrite(value, age) ==
    /\ jar' = SetCookie(jar, OutsideString(value, age), now)
    /\ lastSwitch' = None
    /\ UNCHANGED <<now, ticks, pc, callArg, done, reloadPending, page>>

\* the visitor clears the site's cookies
ExternalClear ==
    /\ jar # {}
    /\ jar' = {}
    /\ lastSwitch' = None
    /\ UNCHANGED <<now, ticks, pc, callArg, done, reloadPending, page>>

NextUI ==
    \/ \E i \in DOMAIN page.switcher.buttons : Click(i)
    \/ Continue
    \/ ReloadComplete
    \/ Request
    \/ \E d \in Steps : Tick(d)
    \/ ExternalClear

Next ==
    \/ NextUI
    \/ \E value \in OutsideValues, age \in OutsideAges : ExternalWrite(value, age)

\* every action, tampering with the stored cookie included
Spec == Init /\ [][Next]_vars

\* the visitor's actions, expiry and clearing, without tampering
SpecUI == Init /\ [][NextUI]_vars


---------------------------------------------------------------------------
(* The properties checked *)

\* the scenario's registry, written out: supported set {en, zh, es, id}, default en
En == <<"e","n">>
Zh == <<"z","h">>
Es == <<"e","s">>
Id == <<"i","d">>
Fr == <<"f","r">>
Supported == {En, Zh, Es, Id}

\* the cookie a switch to lang at time t is to leave in the store
Expected(lang, t) ==
    [name |-> CookieName, value |-> lang, path |-> <<"/">>,
     persistent |-> TRUE, expiry |-> t + OneYear, sameSite |-> "Lax"]

\* the step in which handleLanguageChange(lang) assigns document.cookie
WriteStep(lang) ==
    \E i \in DOMAIN page.switcher.buttons :
        page.switcher.buttons[i].onClick = lang /\ Click(i)

\* a step that renders the page anew
RenderStep == ReloadComplete \/ Request

\* C1: a render pass that read stored value V uses V when V is one of en, zh,
\* es, id, and en otherwise (V absent or unsupported); en stored is used as en.
C1_ResolveContract ==
    page.home = IF page.stored # None /\ page.stored[1] \in Supported
                THEN page.stored[1]
                ELSE En

C1_Witness ==
    /\ page.stored = Some(<<"E","N">>)
    /\ page.home = En

\* C2: whatever was switched, reloaded, expired or written into the cookie
\* from outside, every render context of the page uses a supported locale.
C2_RenderedLocaleSupported ==
    /\ page.home \in Supported
    /\ page.switcher.current \in Supported

C2_Witness ==
    /\ \E c \in jar : c.name = CookieName /\ c.value = <<"x","!">> /\ c.expiry > now
    /\ page.stored = Some(Fr)
    /\ page.home = En

\* C3: right after a write of a supported locale L with a max-age above 0
\* (the switcher's own write, or one from outside), read() returns L.
C3_WriteReadRoundTrip ==
    [][/\ \A lang \in Supported : WriteStep(lang) => read(jar', now') = Some(lang)
       /\ \A value \in OutsideValues \cap Supported, age \in OutsideAges \ {<<"0">>} :
              ExternalWrite(value, age) => read(jar', now') = Some(value)]_vars

C3_Witness ==
    /\ pc = 1
    /\ callArg = Some(Es)
    /\ read(jar, now) = Some(Es)
    /\ page.home # Es

\* C4: as long as the stored value was not changed from outside and its year
\* is not over, the stored preference is the argument of the last
\* handleLanguageChange call, also when that call came while the reload of an
\* earlier one was pending, and the page rendered after it uses that locale.
C4_LastWriteWins ==
    (lastSwitch # None /\ pc = 0) =>
        /\ read(jar, now) = Some(lastSwitch[1])
        /\ (done = <<>> /\ ~reloadPending) =>
               /\ page.home = lastSwitch[1]
               /\ page.switcher.current = lastSwitch[1]

C4_Witness ==
    /\ pc = 1
    /\ reloadPending
    /\ page.home = En
    /\ callArg = Some(Zh)
    /\ read(jar, now) = Some(Zh)

\* C5: a render pass that starts after handleLanguageChange(L) (the reload it
\* asked for, or any later request) builds every render context from L: Home,
\* the switcher's current locale and its highlighted button.
C5_ReloadRebuilds ==
    [][(RenderStep /\ lastSwitch # None) =>
          /\ page'.stored = Some(lastSwitch[1])
          /\ page'.home = lastSwitch[1]
          /\ page'.switcher.current = lastSwitch[1]
          /\ \A i \in DOMAIN page'.switcher.buttons :
                 (page'.switcher.buttons[i].variant = "default")
                     <=> (page'.switcher.buttons[i].key = lastSwitch[1])]_vars

C5_Witness ==
    /\ lastSwitch # None
    /\ lastSwitch[1] = Id
    /\ done = <<>>
    /\ ~reloadPending
    /\ page.home = Id
    /\ page.switcher.buttons[4].variant = "default"

\* C6: a write with max-age 0 leaves read() absent, a stored value whose
\* max-age has elapsed is read as absent (for the switcher's write: one year
\* after it), and a render pass that reads absent uses en.
C6_ExpiryBoundary ==
    /\ []((\A c \in jar : c.name = CookieName => c.persistent /\ c.expiry <= now)
              => read(jar, now) = None)
    /\ [][/\ \A value \in OutsideValues :
                 ExternalWrite(value, <<"0">>) => read(jar', now') = None
          /\ (lastSwitch # None /\ now' >= lastSwitch[2] + OneYear)
                 => read(jar', now') = None
          /\ (RenderStep /\ read(jar, now) = None) => page'.home = En]_vars

C6_Witness ==
    /\ \E c \in jar : c.name = CookieName /\ c.value = Es /\ c.expiry = now
    /\ read(jar, now) = None
    /\ page.stored = None
    /\ page.home = En
    /\ done = <<>>

\* C7: the write of handleLanguageChange(L) at time t leaves exactly one cookie
\* named NEXT_LOCALE, with value L, path /, expiry t + 31,536,000 and SameSite
\* Lax, and adds no other cookie.
C7_StoredEntry ==
    [][\A lang \in Supported :
          WriteStep(lang) =>
              /\ {c \in jar' : c.name = CookieName} = {Expected(lang, now)}
              /\ jar' \ jar \subseteq {Expected(lang, now)}]_vars

C7_Witness ==
    /\ pc = 1
    /\ now > 0
    /\ jar = {Expected(Id, now)}

\* C8: a call of handleLanguageChange has two effects, the write and then the
\* reload: the reload is asked for only by a call that has written, and a call
\* that has ended has done both.
C8_WriteThenReload ==
    /\ [](done \in {<<>>, <<"write">>, <<"write", "reload">>})
    /\ [](pc = 0 => done \in {<<>>, <<"write", "reload">>})
    /\ [][(done' # done /\ done' # <<>> /\ done'[Len(done')] = "reload")
              => done = <<"write">> /\ reloadPending' /\ jar' = jar]_vars
    /\ [][(done' # done /\ done' # <<>> /\ done'[Len(done')] = "write")
              => pc = 0 /\ done' = <<"write">> /\ reloadPending' = reloadPending]_vars
    /\ [][(~reloadPending /\ reloadPending') => done' = <<"write", "reload">>]_vars

C8_Witness ==
    /\ done = <<"write", "reload">>
    /\ reloadPending
    /\ pc = 0
    /\ read(jar, now) = Some(Zh)

\* C9: the preference starts absent; it becomes L, or changes to another L,
\* only in the write of a handleLanguageChange call; it becomes absent only
\* by expiry or clearing; rendering, the reload statement and the reload's
\* arrival leave the store as it is.
C9_PreferenceTransitions ==
    /\ read(jar, now) = None
    /\ [][LET p == read(jar, now)
              q == read(jar', now')
          IN  /\ (q # p /\ q # None) => \E lang \in Supported : WriteStep(lang) /\ q = Some(lang)
              /\ (q # p /\ q = None) => (ExternalClear \/ \E d \in Steps : Tick(d))
              /\ (RenderStep \/ (Continue /\ reloadPending')) => jar' = jar]_vars

C9_Witness ==
    /\ page.stored = Some(Zh)
    /\ read(jar, now) = None
    /\ jar # {}

\* C10: the switcher offers one button per registry locale, in registry order
\* (en, zh, es, id), handleLanguageChange is called with one of them only, and
\* without writes from outside the stored value is absent or one of them.
C10_ClosedChoice ==
    /\ [i \in DOMAIN page.switcher.buttons |-> page.switcher.buttons[i].onClick] = <<En, Zh, Es, Id>>
    /\ [i \in DOMAIN page.switcher.buttons |-> page.switcher.buttons[i].key] = <<En, Zh, Es, Id>>
    /\ callArg # None => callArg[1] \in Supported
    /\ \A c \in jar : c.name = CookieName /\ c.value \in Supported
    /\ read(jar, now) \in {None} \cup {Some(l) : l \in Supported}

C10_Witness ==
    /\ read(jar, now) = Some(Id)
    /\ page.switcher.current = Es
    /\ page.switcher.buttons[3].variant = "default"
    /\ pc = 1

=============================================================================
